---- MODULE Spec2Model ----
(***************************************************************************)
(* Model of lib/Dispatcher.js: the store registry, the domain registry and *)
(* the handler table of a Dispatcher, and the operations on them.          *)
(*                                                                         *)
(* JavaScript values are named by references (strings); Obj gives what the *)
(* code reads of each value: its typeof, its string content, its           *)
(* `storeName`, its `name` and its static `handlers` map (in key           *)
(* enumeration order).  this.stores, this.domains and this.handlers are    *)
(* object literals: their own properties are modelled, and a read of a     *)
(* property they do not own falls through to Object.prototype.             *)
(***************************************************************************)
EXTENDS Integers, Sequences, FiniteSets, TLC

VARIABLES phase, stores, domains, handlers, contexts, last

vars == <<phase, stores, domains, handlers, contexts, last>>

(***************************************************************************)
(* Bounds of the model.                                                    *)
(***************************************************************************)
MaxOptStores == 2
MaxOptDomains == 1
MaxContexts == 2

(***************************************************************************)
(* The JavaScript values the operations are called with.                   *)
(***************************************************************************)
DEFAULT == "default"

\* the value `undefined`: what a read of an absent property yields
Undefined == "undefined"

\* the value a read finds on Object.prototype (a function such as
\* Object.prototype.toString or Object.prototype.constructor)
Inherited == "Object.prototype.member"

\* property names every object literal inherits from Object.prototype
ObjectPrototypeKeys == {"constructor", "toString"}

\* a value without a `handlers` property (line 66 is falsy), or with an empty
\* map: either way lines 67-70 register nothing
NoHandlers == <<>>

H(action, handler) == [action |-> action, handler |-> handler]

\* hasStoreName: the value has a `storeName` property (an empty one is ""); a
\* value without the property reads as undefined, which is falsy like ""
Fn(storeName, name, hs) ==
    [type |-> "function", str |-> "", hasStoreName |-> storeName # "", storeName |-> storeName,
     name |-> name, handlers |-> hs]

\* a constructor declaring the empty string as its storeName
FnEmptyStoreName(name, hs) == [Fn("", name, hs) EXCEPT !.hasStoreName = TRUE]

PlainObject(storeName, name, hs) ==
    [type |-> "object", str |-> "", hasStoreName |-> storeName # "", storeName |-> storeName,
     name |-> name, handlers |-> hs]

Str(s) ==
    [type |-> "string", str |-> s, hasStoreName |-> FALSE, storeName |-> "", name |-> "",
     handlers |-> NoHandlers]

Obj(r) ==
    CASE r = "S1"       -> Fn("S1", "S1", <<H("foo", "h1")>>)
      [] r = "S2"       -> Fn("S2", "S2", <<H("foo", "h2"), H(DEFAULT, "h3")>>)
      [] r = "S1b"      -> Fn("", "S1", NoHandlers)
      [] r = "S3"       -> Fn("S3", "S3", <<H("foo", "h5"), H("toString", "h6"), H(DEFAULT, "h7")>>)
      [] r = "Widget"   -> Fn("", "Widget", NoHandlers)
      [] r = "Anon"     -> Fn("", "", NoHandlers)
      [] r = "Blank"    -> FnEmptyStoreName("Blank", NoHandlers)
      [] r = "Ctor"     -> Fn("constructor", "Ctor", NoHandlers)
      [] r = "Ctor2"    -> Fn("constructor", "Ctor2", <<H("bar", "h9")>>)
      [] r = "ObjS1"    -> PlainObject("S1", "", <<H("foo", "h8")>>)
      [] r = "'S1'"     -> Str("S1")
      [] r = "'constructor'" -> Str("constructor")
      [] r = Inherited  -> Fn("", "toString", NoHandlers)
      [] OTHER          -> [type |-> "undefined", str |-> "", hasStoreName |-> FALSE,
                            storeName |-> "", name |-> "", handlers |-> NoHandlers]

StoreArgs == {"S1", "S2", "S1b", "S3", "Anon", "Ctor", "Ctor2", "ObjS1", "'S1'", Undefined}
DomainArgs == {"S1", "Anon", "Ctor", "ObjS1", "'S1'", Undefined}
QueryArgs == {"S1", "S1b", "Widget", "Ctor", "ObjS1", "'S1'", "'constructor'", Undefined}
DomainQueryArgs == {"S1", "ObjS1", "'S1'", Undefined}
NameArgs == {"S1", "S1b", "Widget", "Anon", "Blank", "Ctor", "ObjS1", "'S1'", "'constructor'", Undefined}
OptStores == {"S1", "S2", "S1b", "S3", "ObjS1"}
OptDomains == {"S1", "ObjS1", "Anon"}
Payloads == {"p1", "p2"}

Actions == {DEFAULT, "foo", "bar", "toString"}

SeqsUpTo(S, n) == UNION {[1..k -> S] : k \in 0..n}

(***************************************************************************)
(* Object literals: own properties in insertion order, reads falling       *)
(* through to Object.prototype.                                            *)
(***************************************************************************)
Own(reg, key) == \E i \in 1..Len(reg) : reg[i].name = key

OwnValue(reg, key) == reg[CHOOSE i \in 1..Len(reg) : reg[i].name = key].value

\* reg[key]
Get(reg, key) ==
    IF Own(reg, key) THEN OwnValue(reg, key)
    ELSE IF key \in ObjectPrototypeKeys THEN Inherited
    ELSE Undefined

\* reg[key] = value
Set(reg, key, value) ==
    IF Own(reg, key)
    THEN [i \in 1..Len(reg) |-> IF reg[i].name = key THEN [name |-> key, value |-> value] ELSE reg[i]]
    ELSE Append(reg, [name |-> key, value |-> value])

\* a slot of this.handlers: not an own property, an own array, or an own
\* property holding something that is no array
NoSlot == [own |-> FALSE, list |-> FALSE, items |-> <<>>]
EmptyList == [own |-> TRUE, list |-> TRUE, items |-> <<>>]
InheritedSlot == [own |-> TRUE, list |-> FALSE, items |-> <<>>]

EmptyHandlers == [a \in Actions |-> IF a = DEFAULT THEN EmptyList ELSE NoSlot]

\* getStoreName preferring the intrinsic name to storeName
getStoreName_NameFirst(store) ==
    IF store.type = "string" THEN [threw |-> FALSE, name |-> store.str]
    ELSE IF store.type = "undefined" THEN [threw |-> TRUE, name |-> ""]
    ELSE [threw |-> FALSE,
          name |-> IF store.name # "" THEN store.name ELSE store.storeName]

(***************************************************************************)
(* getStoreName (lines 136-141).  threw: reading a property of undefined   *)
(* raises a TypeError.                                                     *)
(***************************************************************************)
getStoreName(store) ==
    IF store.type = "string" THEN [threw |-> FALSE, name |-> store.str]
    ELSE IF store.type = "undefined" THEN [threw |-> TRUE, name |-> ""]
    ELSE [threw |-> FALSE,
          name |-> IF store.storeName # "" THEN store.storeName ELSE store.name]

\* _registerHandler putting the new binding in front of the list (unshift
\* instead of the push of line 155)
registerHandler_Prepend(h, action, name, handler) ==
    LET cur == h[action]
        slot == IF cur.own THEN cur
                ELSE IF action \in ObjectPrototypeKeys THEN InheritedSlot
                ELSE EmptyList
        h1 == [h EXCEPT ![action] = slot]
        binding == [name |-> getStoreName(Str(name)).name, handler |-> handler]
    IN  IF slot.list
        THEN [handlers |-> [h1 EXCEPT ![action].items = <<binding>> \o @], threw |-> FALSE]
        ELSE [handlers |-> h1, threw |-> TRUE]

(***************************************************************************)
(* _registerHandler (lines 153-160).  Line 154 keeps whatever a read of    *)
(* this.handlers[action] finds when that is truthy (an own array, or a     *)
(* member inherited from Object.prototype) and stores it as an own         *)
(* property; line 155 pushes, which raises a TypeError when the slot holds *)
(* no array.                                                               *)
(***************************************************************************)
registerHandler(h, action, name, handler) ==
    LET cur == h[action]
        slot == IF cur.own THEN cur
                ELSE IF action \in ObjectPrototypeKeys THEN InheritedSlot
                ELSE EmptyList
        h1 == [h EXCEPT ![action] = slot]
        binding == [name |-> getStoreName(Str(name)).name, handler |-> handler]
    IN  IF slot.list
        THEN [handlers |-> [h1 EXCEPT ![action].items = Append(@, binding)], threw |-> FALSE]
        ELSE [handlers |-> h1, threw |-> TRUE]

\* the loop of lines 67-70 registering the first key of store.handlers only
storeHandlersEach_FirstKeyOnly(h, hs, storeName, i) ==
    IF hs = NoHandlers THEN [handlers |-> h, threw |-> FALSE]
    ELSE registerHandler(h, hs[1].action, storeName, hs[1].handler)

\* the forEach of lines 67-70 over Object.keys(store.handlers), from key i on;
\* an exception ends the loop
RECURSIVE storeHandlersEach(_, _, _, _)
storeHandlersEach(h, hs, storeName, i) ==
    IF i > Len(hs) THEN [handlers |-> h, threw |-> FALSE]
    ELSE LET r == registerHandler(h, hs[i].action, storeName, hs[i].handler)
         IN  IF r.threw THEN r
             ELSE storeHandlersEach(r.handlers, hs, storeName, i + 1)

\* the dispatcher's three tables and the outcome of a call on it
Result(d, outcome) ==
    [stores |-> d.stores, domains |-> d.domains, handlers |-> d.handlers, outcome |-> outcome]

\* registerStore resolving the name and checking for a duplicate before the
\* typeof check of lines 51-53
registerStore_NameFirst(d, store) ==
    LET v == Obj(store)
        g == getStoreName(v)
        storeName == g.name
    IN  IF g.threw THEN Result(d, "TypeError")
        ELSE IF storeName = "" THEN Result(d, "MissingName")
        ELSE IF Get(d.stores, storeName) # Undefined
             THEN IF Get(d.stores, storeName) = store
                  THEN Result(d, "ok")
                  ELSE Result(d, "Duplicate")
        ELSE IF v.type # "function" THEN Result(d, "InvalidStore")
        ELSE LET bound == Set(d.stores, storeName, store)
                 r == storeHandlersEach(d.handlers, v.handlers, storeName, 1)
             IN  [stores |-> bound, domains |-> d.domains, handlers |-> r.handlers,
                  outcome |-> IF r.threw THEN "TypeError" ELSE "ok"]

\* registerStore rebinding the name when another class already holds it,
\* instead of raising at lines 59-63
registerStore_Overwrite(d, store) ==
    LET v == Obj(store)
        storeName == getStoreName(v).name
    IN  IF v.type # "function" THEN Result(d, "InvalidStore")
        ELSE IF storeName = "" THEN Result(d, "MissingName")
        ELSE IF Get(d.stores, storeName) = store THEN Result(d, "ok")
        ELSE LET bound == Set(d.stores, storeName, store)
                 r == storeHandlersEach(d.handlers, v.handlers, storeName, 1)
             IN  [stores |-> bound, domains |-> d.domains, handlers |-> r.handlers,
                  outcome |-> IF r.threw THEN "TypeError" ELSE "ok"]

(***************************************************************************)
(* registerStore (lines 50-72)                                             *)
(***************************************************************************)
registerStore(d, store) ==
    LET v == Obj(store)
        storeName == getStoreName(v).name
    IN  IF v.type # "function" THEN Result(d, "InvalidStore")
        ELSE IF storeName = "" THEN Result(d, "MissingName")
        ELSE IF Get(d.stores, storeName) # Undefined
             THEN IF Get(d.stores, storeName) = store
                  THEN Result(d, "ok")
                  ELSE Result(d, "Duplicate")
        ELSE LET bound == Set(d.stores, storeName, store)
                 r == storeHandlersEach(d.handlers, v.handlers, storeName, 1)
             IN  [stores |-> bound, domains |-> d.domains, handlers |-> r.handlers,
                  outcome |-> IF r.threw THEN "TypeError" ELSE "ok"]

\* registerDomain registering the domain's handlers map as registerStore does
registerDomain_WithHandlers(d, domain) ==
    LET v == Obj(domain)
        g == getStoreName(v)
        domainName == g.name
    IN  IF g.threw THEN Result(d, "TypeError")
        ELSE IF domainName = "" THEN Result(d, "MissingName")
        ELSE IF Get(d.domains, domainName) # Undefined
             THEN IF Get(d.domains, domainName) = domain
                  THEN Result(d, "ok")
                  ELSE Result(d, "Duplicate")
        ELSE LET r == storeHandlersEach(d.handlers, v.handlers, domainName, 1)
             IN  [stores |-> d.stores, domains |-> Set(d.domains, domainName, domain),
                  handlers |-> r.handlers,
                  outcome |-> IF r.threw THEN "TypeError" ELSE "ok"]

(***************************************************************************)
(* registerDomain (lines 74-87)                                            *)
(***************************************************************************)
registerDomain(d, domain) ==
    LET v == Obj(domain)
        g == getStoreName(v)
        domainName == g.name
    IN  IF g.threw THEN Result(d, "TypeError")
        ELSE IF domainName = "" THEN Result(d, "MissingName")
        ELSE IF Get(d.domains, domainName) # Undefined
             THEN IF Get(d.domains, domainName) = domain
                  THEN Result(d, "ok")
                  ELSE Result(d, "Duplicate")
        ELSE [stores |-> d.stores, domains |-> Set(d.domains, domainName, domain),
              handlers |-> d.handlers, outcome |-> "ok"]

(***************************************************************************)
(* isRegistered (lines 96-110)                                             *)
(***************************************************************************)
isRegistered(d, store) ==
    LET v == Obj(store)
        g == getStoreName(v)
        storeInstance == Get(d.stores, g.name)
    IN  IF g.threw THEN "TypeError"
        ELSE IF storeInstance = Undefined THEN "false"
        ELSE IF v.type = "function" /\ store # storeInstance THEN "false"
        ELSE "true"

(***************************************************************************)
(* isRegisteredDomain (lines 112-126).  Line 114 reads                     *)
(* this.domainName[storeName]: the dispatcher has no property domainName   *)
(* and the function no variable storeName.  Without a global variable of   *)
(* that name the read of storeName raises a ReferenceError; with one       *)
(* (globalStoreName), indexing undefined raises a TypeError.  Lines        *)
(* 116-125 are never reached.                                              *)
(***************************************************************************)
isRegisteredDomain(d, domain, globalStoreName) ==
    LET v == Obj(domain)
        g == getStoreName(v)
    IN  IF g.threw THEN "TypeError"
        ELSE IF ~globalStoreName THEN "ReferenceError"
        ELSE "TypeError"

(***************************************************************************)
(* The constructor (lines 18-35): empty tables with the default list, then *)
(* every store of options.stores, then every domain of options.domains.    *)
(* An exception of a registration ends the construction.                   *)
(***************************************************************************)
EmptyDispatcher == [stores |-> <<>>, domains |-> <<>>, handlers |-> EmptyHandlers]

Tables(r) == [stores |-> r.stores, domains |-> r.domains, handlers |-> r.handlers]

RECURSIVE registerStores(_, _, _)
registerStores(d, ss, i) ==
    IF i > Len(ss) THEN Result(d, "ok")
    ELSE LET r == registerStore(d, ss[i])
         IN  IF r.outcome # "ok" THEN r ELSE registerStores(Tables(r), ss, i + 1)

RECURSIVE registerDomains(_, _, _)
registerDomains(d, ds, i) ==
    IF i > Len(ds) THEN Result(d, "ok")
    ELSE LET r == registerDomain(d, ds[i])
         IN  IF r.outcome # "ok" THEN r ELSE registerDomains(Tables(r), ds, i + 1)

\* the constructor with the two loops (lines 28-30 and 32-34) swapped
Dispatcher_DomainsFirst(optStores, optDomains) ==
    LET r == registerDomains(EmptyDispatcher, optDomains, 1)
    IN  IF r.outcome # "ok" THEN r ELSE registerStores(Tables(r), optStores, 1)

\* the constructor with line 26 (the empty default list) run after the
\* registrations instead of before them
Dispatcher_DefaultLast(optStores, optDomains) ==
    LET r == registerStores(EmptyDispatcher, optStores, 1)
        q == IF r.outcome # "ok" THEN r ELSE registerDomains(Tables(r), optDomains, 1)
    IN  [q EXCEPT !.handlers[DEFAULT] = EmptyList]

Dispatcher(optStores, optDomains) ==
    LET r == registerStores(EmptyDispatcher, optStores, 1)
    IN  IF r.outcome # "ok" THEN r ELSE registerDomains(Tables(r), optDomains, 1)

\* the dispatch context built by createContext: it keeps the dispatcher and
\* the caller's context value
DispatcherContext(dispatcher, context) == [dispatcher |-> dispatcher, context |-> context]

(***************************************************************************)
(* The state machine.  phase: "new" before createDispatcher is called,     *)
(* "ready" once it has returned a dispatcher, "failed" when the            *)
(* constructor raised (no dispatcher exists then).  contexts: the dispatch *)
(* contexts created so far, in creation order.  last: the last call, its   *)
(* arguments and how it ended.                                             *)
(***************************************************************************)
Call(op, arg, outcome) ==
    [op |-> op, arg |-> arg, optStores |-> <<>>, optDomains |-> <<>>, outcome |-> outcome]

This == [stores |-> stores, domains |-> domains, handlers |-> handlers]

Init ==
    /\ phase = "new"
    /\ stores = <<>>
    /\ domains = <<>>
    /\ handlers = EmptyHandlers
    /\ contexts = <<>>
    /\ last = Call("none", Undefined, "ok")

\* createDispatcher(options) (lines 162-166)
createDispatcher(optStores, optDomains) ==
    /\ phase = "new"
    /\ LET r == Dispatcher(optStores, optDomains)
       IN  /\ phase' = IF r.outcome = "ok" THEN "ready" ELSE "failed"
           /\ stores' = IF r.outcome = "ok" THEN r.stores ELSE stores
           /\ domains' = IF r.outcome = "ok" THEN r.domains ELSE domains
           /\ handlers' = IF r.outcome = "ok" THEN r.handlers ELSE handlers
           /\ last' = [op |-> "createDispatcher", arg |-> Undefined, optStores |-> optStores,
                       optDomains |-> optDomains, outcome |-> r.outcome]
    /\ UNCHANGED contexts

RegisterStore(store) ==
    /\ phase = "ready"
    /\ LET r == registerStore(This, store)
       IN  /\ stores' = r.stores
           /\ domains' = r.domains
           /\ handlers' = r.handlers
           /\ last' = Call("registerStore", store, r.outcome)
    /\ UNCHANGED <<phase, contexts>>

RegisterDomain(domain) ==
    /\ phase = "ready"
    /\ LET r == registerDomain(This, domain)
       IN  /\ stores' = r.stores
           /\ domains' = r.domains
           /\ handlers' = r.handlers
           /\ last' = Call("registerDomain", domain, r.outcome)
    /\ UNCHANGED <<phase, contexts>>

IsRegistered(store) ==
    /\ phase = "ready"
    /\ last' = Call("isRegistered", store, isRegistered(This, store))
    /\ UNCHANGED <<phase, stores, domains, handlers, contexts>>

IsRegisteredDomain(domain, globalStoreName) ==
    /\ phase = "ready"
    /\ last' = Call("isRegisteredDomain", domain, isRegisteredDomain(This, domain, globalStoreName))
    /\ UNCHANGED <<phase, stores, domains, handlers, contexts>>

\* a call of the public method getStoreName (lines 136-141); the outcome is the
\* name returned, or the TypeError raised
GetStoreName(store) ==
    /\ phase = "ready"
    /\ LET g == getStoreName(Obj(store))
       IN  last' = Call("getStoreName", store, IF g.threw THEN "TypeError" ELSE g.name)
    /\ UNCHANGED <<phase, stores, domains, handlers, contexts>>

\* createContext handing out one cached context instead of a new one per call
createContext_Cached(context) ==
    /\ phase = "ready"
    /\ Len(contexts) < MaxContexts
    /\ contexts' = IF contexts = <<>> THEN <<DispatcherContext("this", context)>> ELSE contexts
    /\ last' = Call("createContext", context, "ok")
    /\ UNCHANGED <<phase, stores, domains, handlers>>

\* createContext (lines 37-39)
createContext(context) ==
    /\ phase = "ready"
    /\ Len(contexts) < MaxContexts
    /\ contexts' = Append(contexts, DispatcherContext("this", context))
    /\ last' = Call("createContext", context, "ok")
    /\ UNCHANGED <<phase, stores, domains, handlers>>

Next ==
    \/ /\ phase = "new"
       /\ \E ss \in SeqsUpTo(OptStores, MaxOptStores), ds \in SeqsUpTo(OptDomains, MaxOptDomains) :
             createDispatcher(ss, ds)
    \/ \E s \in StoreArgs : RegisterStore(s)
    \/ \E dm \in DomainArgs : RegisterDomain(dm)
    \/ \E s \in QueryArgs : IsRegistered(s)
    \/ \E dm \in DomainQueryArgs, g \in BOOLEAN : IsRegisteredDomain(dm, g)
    \/ \E s \in NameArgs : GetStoreName(s)
    \/ \E c \in Payloads : createContext(c)

Spec == Init /\ [][Next]_vars

(***************************************************************************)
(* Vocabulary of the properties.                                           *)
(***************************************************************************)
Errors == {"InvalidStore", "MissingName", "Duplicate", "TypeError", "ReferenceError"}

tables == <<stores, domains, handlers>>

\* the canonical name of a value that has one
NameOf(r) == getStoreName(Obj(r)).name

IsClass(r) == Obj(r).type = "function"

\* reg binds the name of r, as an own property, to r itself / to another value
BoundTo(reg, r) == Own(reg, NameOf(r)) /\ OwnValue(reg, NameOf(r)) = r
BoundToOther(reg, r) == Own(reg, NameOf(r)) /\ OwnValue(reg, NameOf(r)) # r

Declares(r, a) == \E i \in 1..Len(Obj(r).handlers) : Obj(r).handlers[i].action = a

HandlerOf(r, a) ==
    Obj(r).handlers[CHOOSE i \in 1..Len(Obj(r).handlers) : Obj(r).handlers[i].action = a].handler

\* the bindings named n in the list of action a
BindingsNamed(h, a, n) == {j \in 1..Len(h[a].items) : h[a].items[j].name = n}

\* the last call was op(arg)
Called(op, arg) == last.op = op /\ last.arg = arg

(***************************************************************************)
(* C1: a registerStore or registerDomain call that ends in an error leaves *)
(* the store registry, the domain registry and the handler table exactly   *)
(* as they were before the call.                                           *)
(***************************************************************************)
C1_FailedRegistrationChangesNothing ==
    [][(last'.op \in {"registerStore", "registerDomain"} /\ last'.outcome \in Errors)
          => UNCHANGED tables]_vars

(***************************************************************************)
(* C2: registering again a store (a domain) that the registry already      *)
(* binds to that very reference succeeds and changes nothing, and after    *)
(* the call every action of the store's handler map has exactly one        *)
(* binding carrying the store's name.                                      *)
(***************************************************************************)
C2_ReRegistrationIdempotent ==
    [][/\ \A s \in StoreArgs :
            (last'.op = "registerStore" /\ last'.arg = s /\ IsClass(s) /\ BoundTo(stores, s))
               => /\ last'.outcome = "ok"
                  /\ UNCHANGED tables
                  /\ \A a \in Actions :
                        Declares(s, a) => Cardinality(BindingsNamed(handlers', a, NameOf(s))) = 1
       /\ \A dm \in DomainArgs :
            (last'.op = "registerDomain" /\ last'.arg = dm /\ dm # Undefined /\ BoundTo(domains, dm))
               => last'.outcome = "ok" /\ UNCHANGED tables]_vars

(***************************************************************************)
(* C3: of two distinct store classes s and t with the same canonical name, *)
(* the registration of the first, s, succeeds and binds the name to s; the *)
(* registration of t then fails with the duplicate error, the registry     *)
(* still maps the name to s and the handler table holds none of t's        *)
(* handlers.                                                               *)
(***************************************************************************)
C3_CollisionRejected ==
    [][\A s, t \in StoreArgs :
          (IsClass(s) /\ IsClass(t) /\ s # t /\ NameOf(s) = NameOf(t) /\ NameOf(s) # "")
             => /\ (last'.op = "registerStore" /\ last'.arg = s /\ ~Own(stores, NameOf(s)))
                     => last'.outcome = "ok" /\ BoundTo(stores', s)
                /\ (last'.op = "registerStore" /\ last'.arg = t /\ BoundTo(stores, s))
                     => /\ last'.outcome = "Duplicate"
                        /\ BoundTo(stores', s)
                        /\ \A a \in Actions : \A j \in 1..Len(handlers'[a].items) :
                              \A i \in 1..Len(Obj(t).handlers) :
                                 handlers'[a].items[j].handler # Obj(t).handlers[i].handler]_vars

(***************************************************************************)
(* C4: the list of every action is exactly the sequence of the bindings    *)
(* {name, handler} of the registered stores that declare the action, in    *)
(* the order of their registration.                                        *)
(***************************************************************************)
RECURSIVE BindingsInOrder(_, _, _)
BindingsInOrder(reg, a, i) ==
    IF i > Len(reg) THEN <<>>
    ELSE (IF Declares(reg[i].value, a)
          THEN <<[name |-> reg[i].name, handler |-> HandlerOf(reg[i].value, a)]>>
          ELSE <<>>) \o BindingsInOrder(reg, a, i + 1)

C4_HandlerListsInRegistrationOrder ==
    \A a \in Actions :
       /\ handlers[a].own => handlers[a].list
       /\ handlers[a].items = BindingsInOrder(stores, a, 1)

(***************************************************************************)
(* C5: right after createDispatcher(options) the handler table has a       *)
(* `default` entry.  As claimed, that entry is the empty list whatever     *)
(* stores were passed:                                                     *)
(***************************************************************************)
C5_DefaultEmptyAfterConstruction ==
    (last.op = "createDispatcher" /\ phase = "ready") => handlers[DEFAULT] = EmptyList

\* the `default` bindings of the stores passed, one per distinct store, in
\* the order they were passed
RECURSIVE DefaultBindingsOf(_, _)
DefaultBindingsOf(ss, i) ==
    IF i > Len(ss) THEN <<>>
    ELSE (IF Declares(ss[i], DEFAULT) /\ \A j \in 1..(i - 1) : ss[j] # ss[i]
          THEN <<[name |-> NameOf(ss[i]), handler |-> HandlerOf(ss[i], DEFAULT)]>>
          ELSE <<>>) \o DefaultBindingsOf(ss, i + 1)

(***************************************************************************)
(* C5, amended: right after createDispatcher(options) the handler table    *)
(* has a `default` entry, a list holding exactly the `default` bindings of *)
(* the stores passed in options.stores; it is empty exactly when none of   *)
(* them declares a "default" handler.                                      *)
(***************************************************************************)
C5_DefaultAfterConstruction ==
    (last.op = "createDispatcher" /\ phase = "ready")
       => /\ handlers[DEFAULT].own /\ handlers[DEFAULT].list
          /\ handlers[DEFAULT].items = DefaultBindingsOf(last.optStores, 1)
          /\ (handlers[DEFAULT].items = <<>>)
                <=> ~\E i \in 1..Len(last.optStores) : Declares(last.optStores[i], DEFAULT)

C5_Witness ==
    /\ last.op = "createDispatcher" /\ phase = "ready"
    /\ \E i \in 1..Len(last.optStores) : last.optStores[i] = "S2"
    /\ handlers[DEFAULT].items = <<[name |-> "S2", handler |-> "h3"]>>

(***************************************************************************)
(* C6: isRegistered(x) returns false when the canonical name of x is not   *)
(* bound in the store registry, true for a string name that is bound, and  *)
(* for a class true exactly when the name is bound to that very class.     *)
(***************************************************************************)
C6_IsRegisteredIffBound ==
    \A x \in QueryArgs :
       (Called("isRegistered", x) /\ x # Undefined)
          => /\ ~Own(stores, NameOf(x)) => last.outcome = "false"
             /\ (Obj(x).type = "string" /\ Own(stores, NameOf(x))) => last.outcome = "true"
             /\ IsClass(x) => (last.outcome = IF BoundTo(stores, x) THEN "true" ELSE "false")

(***************************************************************************)
(* C7: isRegisteredDomain(x) returns a boolean and never raises: false     *)
(* when the canonical name of x is not bound in the domain registry, true  *)
(* for a string name that is bound, and for any other argument true only   *)
(* when the name is bound to that very reference.                          *)
(***************************************************************************)
C7_IsRegisteredDomainMirrors ==
    \A x \in DomainQueryArgs :
       (Called("isRegisteredDomain", x) /\ x # Undefined)
          => /\ last.outcome \in {"true", "false"}
             /\ ~Own(domains, NameOf(x)) => last.outcome = "false"
             /\ (Obj(x).type = "string" /\ Own(domains, NameOf(x))) => last.outcome = "true"
             /\ (Obj(x).type # "string" /\ last.outcome = "true") => BoundTo(domains, x)

(***************************************************************************)
(* C8: registerDomain rejects, with an error and the domain registry       *)
(* unchanged, an argument that is no callable constructor, and rejects a   *)
(* constructor without a name with the missing-name error.                 *)
(***************************************************************************)
C8_RegisterDomainPreconditions ==
    [][\A dm \in DomainArgs :
          (last'.op = "registerDomain" /\ last'.arg = dm)
             => /\ ~IsClass(dm) => (last'.outcome \in Errors /\ domains' = domains)
                /\ (IsClass(dm) /\ NameOf(dm) = "") => last'.outcome = "MissingName"]_vars

(***************************************************************************)
(* C9: the two namespaces are independent.  Registering a store under a    *)
(* name that the domain registry binds and the store registry does not     *)
(* succeeds, and likewise a domain under a name only the store registry    *)
(* binds; the duplicate error is raised exactly when the registry written  *)
(* to binds the name to another reference.                                 *)
(***************************************************************************)
C9_NamespacesIndependent ==
    [][/\ \A s \in StoreArgs :
            (last'.op = "registerStore" /\ last'.arg = s /\ IsClass(s) /\ NameOf(s) # "")
               => /\ (Own(domains, NameOf(s)) /\ ~Own(stores, NameOf(s))) => last'.outcome = "ok"
                  /\ (last'.outcome = "Duplicate") <=> BoundToOther(stores, s)
       /\ \A dm \in DomainArgs :
            (last'.op = "registerDomain" /\ last'.arg = dm /\ IsClass(dm) /\ NameOf(dm) # "")
               => /\ (Own(stores, NameOf(dm)) /\ ~Own(domains, NameOf(dm))) => last'.outcome = "ok"
                  /\ (last'.outcome = "Duplicate") <=> BoundToOther(domains, dm)]_vars

(***************************************************************************)
(* C10: every createContext call leaves the three tables unchanged and     *)
(* returns a new dispatch context, distinct from the earlier ones (which   *)
(* stay as they are), that holds this dispatcher and the value passed.     *)
(***************************************************************************)
C10_CreateContextPure ==
    [][last'.op = "createContext"
          => /\ UNCHANGED tables
             /\ Len(contexts') = Len(contexts) + 1
             /\ SubSeq(contexts', 1, Len(contexts)) = contexts
             /\ contexts'[Len(contexts')] = [dispatcher |-> "this", context |-> last'.arg]]_vars

C10_Witness ==
    /\ last.op = "createContext"
    /\ Len(contexts) >= 2
    /\ contexts[1].context # contexts[2].context
    /\ stores # <<>> /\ domains # <<>>

(***************************************************************************)
(* C11: createDispatcher({stores, domains}) is an empty dispatcher on      *)
(* which registerStore is called for every element of stores, in order,    *)
(* and then registerDomain for every element of domains, in order: it      *)
(* raises what the first failing call of that sequence raises (a store's   *)
(* error before any domain's), and otherwise returns a dispatcher with the *)
(* tables those calls produce.                                             *)
(***************************************************************************)
\* the calls, in order: one per store, then one per domain
CallsOf(ss, ds) ==
    [i \in 1..(Len(ss) + Len(ds)) |->
        IF i <= Len(ss) THEN [op |-> "registerStore", arg |-> ss[i]]
        ELSE [op |-> "registerDomain", arg |-> ds[i - Len(ss)]]]

\* the calls made one after the other on d, up to the first that raises
RECURSIVE InSequence(_, _, _)
InSequence(d, calls, i) ==
    IF i > Len(calls) THEN Result(d, "ok")
    ELSE LET r == IF calls[i].op = "registerStore" THEN registerStore(d, calls[i].arg)
                  ELSE registerDomain(d, calls[i].arg)
         IN  IF r.outcome # "ok" THEN r ELSE InSequence(Tables(r), calls, i + 1)

C11_WitnessStoreErrorFirst ==
    /\ last.op = "createDispatcher" /\ phase = "failed"
    /\ last.optStores = <<"ObjS1">> /\ last.optDomains = <<"Anon">>
    /\ last.outcome = "InvalidStore"

(***************************************************************************)
(* C12: registerStore validates in a fixed order.  An argument that is not *)
(* callable fails with the invalid-store error whatever its name is (also  *)
(* a name the registry binds); a callable without a name fails with the    *)
(* missing-name error; the duplicate error comes only after both.  None of *)
(* the three failures changes a table.                                     *)
(***************************************************************************)
C12_ValidationOrder ==
    [][\A s \in StoreArgs :
          (last'.op = "registerStore" /\ last'.arg = s)
             => /\ ~IsClass(s) => last'.outcome = "InvalidStore"
                /\ (IsClass(s) /\ NameOf(s) = "") => last'.outcome = "MissingName"
                /\ last'.outcome = "Duplicate" => (IsClass(s) /\ NameOf(s) # "")
                /\ last'.outcome \in {"InvalidStore", "MissingName", "Duplicate"}
                      => UNCHANGED tables]_vars

\* a plain object whose name the registry binds to another value is rejected
\* as invalid, not as a duplicate
C12_Witness ==
    /\ Called("registerStore", "ObjS1") /\ last.outcome = "InvalidStore"
    /\ BoundToOther(stores, "ObjS1")

(***************************************************************************)
(* C13: getStoreName returns a string argument unchanged and, for an       *)
(* object, its storeName when it has one and otherwise its name.  As       *)
(* claimed, "has one" means the property is present:                       *)
(***************************************************************************)
C13_StoreNameWhenPresent ==
    \A x \in NameArgs :
       (Called("getStoreName", x) /\ x # Undefined)
          => last.outcome = IF Obj(x).type = "string" THEN Obj(x).str
                            ELSE IF Obj(x).hasStoreName THEN Obj(x).storeName
                            ELSE Obj(x).name

(***************************************************************************)
(* C13, amended: getStoreName returns a string argument unchanged and, for *)
(* an object, its storeName when that is present and not empty (truthy)    *)
(* and otherwise its name, so a store exposing only the constructor name   *)
(* "Widget" resolves to "Widget"; the call changes no table.               *)
(***************************************************************************)
C13_IdentityResolver ==
    [][\A x \in NameArgs :
          (last'.op = "getStoreName" /\ last'.arg = x /\ x # Undefined)
             => /\ UNCHANGED <<tables, contexts>>
                /\ last'.outcome = IF Obj(x).type = "string" THEN Obj(x).str
                                   ELSE IF Obj(x).hasStoreName /\ Obj(x).storeName # ""
                                        THEN Obj(x).storeName
                                   ELSE Obj(x).name
                /\ x = "Widget" => last'.outcome = "Widget"]_vars

C13_Witness ==
    /\ Called("getStoreName", "Widget") /\ last.outcome = "Widget"
    /\ stores # <<>>

(***************************************************************************)
(* C14: in every state of a dispatcher the `default` entry of the handler  *)
(* table exists and is a list, and it holds exactly the bindings of the    *)
(* registered stores whose handler map has the key "default"; registering  *)
(* a store that declares no "default" handler never changes it.            *)
(***************************************************************************)
C14_DefaultListInvariant ==
    phase = "ready"
       => /\ handlers[DEFAULT].own /\ handlers[DEFAULT].list
          /\ handlers[DEFAULT].items = BindingsInOrder(stores, DEFAULT, 1)

\* the part of C14 about stores that declare no "default" handler
C14_NoDefaultHandlerNoChange ==
    [][\A s \in StoreArgs :
          (last'.op = "registerStore" /\ last'.arg = s /\ ~Declares(s, DEFAULT))
             => handlers'[DEFAULT] = handlers[DEFAULT]]_vars

(***************************************************************************)
(* C15: registerDomain, whether it succeeds or fails, leaves the handler   *)
(* table and the store registry unchanged, also when the domain carries a  *)
(* handlers map; a failing call leaves the domain registry unchanged too,  *)
(* and a successful first registration only adds the entry of the domain's *)
(* canonical name to the domain registry.                                  *)
(***************************************************************************)
C15_RegisterDomainFrame ==
    [][\A d \in DomainArgs :
          (last'.op = "registerDomain" /\ last'.arg = d)
             => /\ stores' = stores
                /\ handlers' = handlers
                /\ contexts' = contexts
                /\ last'.outcome # "ok" => domains' = domains
                /\ (last'.outcome = "ok" /\ ~Own(domains, NameOf(d)))
                      => domains' = Append(domains, [name |-> NameOf(d), value |-> d])
                /\ (last'.outcome = "ok" /\ Own(domains, NameOf(d)))
                      => domains' = domains]_vars

\* a domain that carries a handlers map was registered, and no handler of it is bound
C15_Witness ==
    /\ Called("registerDomain", "S1") /\ last.outcome = "ok"
    /\ Obj("S1").handlers # NoHandlers
    /\ BoundTo(domains, "S1") /\ ~Own(stores, "S1")
    /\ handlers["foo"].items = <<>>

\* a failing registerDomain on a dispatcher that has stores and handlers
C15_WitnessFailure ==
    /\ Called("registerDomain", "Anon") /\ last.outcome = "MissingName"
    /\ stores # <<>> /\ handlers["foo"].items # <<>>

(***************************************************************************)
(* C16: bindings are permanent.  Every step of every operation keeps each  *)
(* entry of the store registry and of the domain registry as it was, the   *)
(* same name bound to the same reference (so by induction a name once      *)
(* bound stays bound to that reference in every later state), and each     *)
(* name has at most one entry in a registry at all times.                  *)
(***************************************************************************)
KeepsEntries(reg, regNext) ==
    /\ Len(regNext) >= Len(reg)
    /\ \A i \in 1..Len(reg) : regNext[i] = reg[i]

OneEntryPerName(reg) ==
    \A i, j \in 1..Len(reg) : reg[i].name = reg[j].name => i = j

C16_BindingsPermanent ==
    [][/\ KeepsEntries(stores, stores')
       /\ KeepsEntries(domains, domains')
       /\ OneEntryPerName(stores')
       /\ OneEntryPerName(domains')]_vars

\* a second class asked for a bound name, in both registries, and the first
\* bindings are still there
C16_Witness ==
    /\ Called("registerStore", "S1b") /\ last.outcome = "Duplicate"
    /\ BoundTo(stores, "S1") /\ BoundTo(domains, "ObjS1")
    /\ Len(stores) >= 2

(***************************************************************************)
(* C17: a successful first registration of a store with handler map H      *)
(* appends exactly one binding to the list of each action that is a key of *)
(* H (creating the list when the action had none), and leaves the list of  *)
(* every other action, every other store registry entry and the whole      *)
(* domain registry unchanged; a store without a handler map changes only   *)
(* its own store registry entry.                                           *)
(***************************************************************************)
C17_FirstRegistrationEffect ==
    [][\A s \in StoreArgs :
          (/\ last'.op = "registerStore" /\ last'.arg = s /\ last'.outcome = "ok"
           /\ ~Own(stores, NameOf(s)))
             => /\ stores' = Append(stores, [name |-> NameOf(s), value |-> s])
                /\ domains' = domains
                /\ contexts' = contexts
                /\ \A a \in Actions :
                      IF Declares(s, a)
                      THEN /\ handlers'[a].own /\ handlers'[a].list
                           /\ handlers'[a].items =
                                 Append(handlers[a].items,
                                        [name |-> NameOf(s), handler |-> HandlerOf(s, a)])
                           /\ ~handlers[a].own => Len(handlers'[a].items) = 1
                      ELSE handlers'[a] = handlers[a]
                /\ Obj(s).handlers = NoHandlers => handlers' = handlers]_vars

\* S2, whose handler map has two keys, was registered after S1: one list
\* grew from one binding to two and the other got its first binding
C17_Witness ==
    /\ Called("registerStore", "S2") /\ last.outcome = "ok"
    /\ stores = <<[name |-> "S1", value |-> "S1"], [name |-> "S2", value |-> "S2"]>>
    /\ domains # <<>>
    /\ Len(handlers["foo"].items) = 2
    /\ Len(handlers[DEFAULT].items) = 1
    /\ ~handlers["bar"].own

\* a store without a handler map was registered on a dispatcher with handlers
C17_WitnessNoHandlerMap ==
    /\ Called("registerStore", "S1b") /\ last.outcome = "ok"
    /\ BoundTo(stores, "S1b") /\ BoundTo(stores, "S2")
    /\ Len(handlers["foo"].items) = 1

(***************************************************************************)
(* C18: handler lists are append-only.  Across every step of every         *)
(* operation, successful or failing, the list of each action before the    *)
(* step is a prefix of its list after the step, and no action key is       *)
(* removed from the handler table.                                         *)
(***************************************************************************)
IsPrefix(xs, ys) ==
    /\ Len(xs) <= Len(ys)
    /\ \A i \in 1..Len(xs) : ys[i] = xs[i]

C18_HandlerListsAppendOnly ==
    [][\A a \in Actions :
          /\ handlers[a].own => handlers'[a].own
          /\ handlers[a].list => handlers'[a].list
          /\ IsPrefix(handlers[a].items, handlers'[a].items)]_vars

\* a list that had a binding got a second one behind it
C18_Witness ==
    /\ Called("registerStore", "S1") /\ last.outcome = "ok"
    /\ handlers["foo"].items = <<[name |-> "S2", handler |-> "h2"], [name |-> "S1", handler |-> "h1"]>>
    /\ Len(handlers[DEFAULT].items) = 1

(***************************************************************************)
(* C19: the handler table is consistent with the store registry.  In every *)
(* state of a dispatcher, for every action a and store name n, the list of *)
(* a holds exactly one binding named n when n is bound in the store        *)
(* registry to a store whose handler map has the key a, and that binding's *)
(* handler is that store's handler for a; it holds no binding named n      *)
(* otherwise.                                                              *)
(***************************************************************************)
StoreNames == {NameOf(s) : s \in StoreArgs \cup OptStores} \ {""}

C19_HandlersConsistentWithStores ==
    phase = "ready"
       => \A a \in Actions, n \in StoreNames :
             IF Own(stores, n) /\ Declares(OwnValue(stores, n), a)
             THEN /\ Cardinality(BindingsNamed(handlers, a, n)) = 1
                  /\ \A j \in BindingsNamed(handlers, a, n) :
                        handlers[a].items[j].handler = HandlerOf(OwnValue(stores, n), a)
             ELSE BindingsNamed(handlers, a, n) = {}

\* the consequences the claim draws, which need no complete registration:
\* no binding names an unregistered store, no name occurs twice in a list,
\* and every binding carries its store's handler for the action
C19_NoStrayBinding ==
    \A a \in Actions : \A j \in 1..Len(handlers[a].items) :
        LET b == handlers[a].items[j]
        IN  /\ Own(stores, b.name)
            /\ Declares(OwnValue(stores, b.name), a)
            /\ b.handler = HandlerOf(OwnValue(stores, b.name), a)
            /\ BindingsNamed(handlers, a, b.name) = {j}

====
